---- MODULE Spec2Model ----
(***************************************************************************)
(* Model of internal/gitinterface (keys.go and the Git config readers):    *)
(* reading the Git configuration, resolving the signing command, signing   *)
(* through an external program over OS pipes, signing with key material,   *)
(* and verifying SSH and gitsign (Sigstore) signatures.                    *)
(*                                                                         *)
(* A Go string is a sequence of atoms.  An atom is either a separator      *)
(* character (" ", "\n", "\r") or a run of non-separator characters that   *)
(* the code never looks into ("gpg.format", "ABCD").                       *)
(***************************************************************************)
EXTENDS Integers, Sequences, FiniteSets, TLC

VARIABLES
    stdOut,       \* output of `git config --get-regexp .*`
    execFails,    \* the configuration query exits non-zero
    tooLong,      \* index of the line longer than the Scanner's buffer, 0 if none
    gitCfg,       \* what Repository.GetGitConfig returned
    cfg,          \* what getConfig returned
    method,       \* what getSigningMethod returned
    command,      \* what GetSigningCommand returned
    \* signGitObject and the external signing program
    pc,           \* the statement signGitObject is at
    contents,     \* length in bytes of the contents to sign
    toWrite,      \* bytes of contents not yet written to the child's stdin
    stdinOpen,    \* the parent's end of the stdin pipe is open
    inPipe,       \* bytes buffered in the stdin pipe
    outPipe,      \* bytes buffered in the stdout pipe
    errPipe,      \* bytes buffered in the stderr pipe
    child,        \* "none", "running" or "exited"
    childOp,      \* the system call the child is in: "idle", "read", "writeOut", "writeErr"
    outWritten,   \* bytes the child has written to its stdout
    errWritten,   \* bytes the child has written to its stderr
    exitCode,     \* the child's exit status
    sig,          \* bytes signGitObject has read from the stdout pipe
    errOut,       \* bytes signGitObject has read from the stderr pipe (e)
    printed,      \* bytes signGitObject has copied to its own stderr
    result,       \* what signGitObject returned
    \* signing with key material and verification
    keyIn,        \* contents and pemKeyBytes handed to signGitObjectUsingKey
    keySig,       \* what signGitObjectUsingKey returned
    sshIn,        \* key, data and signature handed to verifySSHKeySignature
    sshVerified,  \* what verifySSHKeySignature returned
    gsIn,         \* key, signature and environment of verifyGitsignSignature
    gitsign       \* what verifyGitsignSignature returned

cfgVars == <<stdOut, execFails, tooLong, gitCfg, cfg, method, command>>

signVars == <<pc, contents, toWrite, stdinOpen, inPipe, outPipe, errPipe, child, childOp,
              outWritten, errWritten, exitCode, sig, errOut, printed, result>>

verVars == <<keyIn, keySig, sshIn, sshVerified, gsIn, gitsign>>

vars == <<cfgVars, signVars, verVars>>

----------------------------------------------------------------------------
(* Bounds *)

MaxOutLen == 8      \* atoms in the configuration output of SpecConfig
MaxCfgLines == 3    \* lines in the configuration output of SpecResolve
PipeCap == 2        \* bytes an OS pipe buffers
MaxPayload == 3     \* bytes of the contents to sign
MaxOut == 3         \* bytes the signing program writes to its stdout
MaxErr == 1         \* bytes the signing program writes to its stderr

----------------------------------------------------------------------------
(* Errors.  A Go error value is a pair: the package sentinel it matches     *)
(* (errors.Is) and the underlying cause it carries.  errors.Join(s, e)      *)
(* gives both; a bare sentinel has no cause; a bare library error has no   *)
(* sentinel.                                                                *)

Nil == "nil"
NoError == [sentinel |-> Nil, cause |-> Nil]
Sentinel(s) == [sentinel |-> s, cause |-> Nil]
Cause(e) == [sentinel |-> Nil, cause |-> e]
ErrorsJoin(s, e) == [sentinel |-> s, cause |-> e]

ErrSigningKeyNotSpecified == "ErrSigningKeyNotSpecified"
ErrUnknownSigningMethod == "ErrUnknownSigningMethod"
ErrUnableToSign == "ErrUnableToSign"
ErrIncorrectVerificationKey == "ErrIncorrectVerificationKey"
ErrVerifyingSigstoreSignature == "ErrVerifyingSigstoreSignature"
ErrVerifyingSSHSignature == "ErrVerifyingSSHSignature"

SigningMethodGPG == 0
SigningMethodSSH == 1
SigningMethodX509 == 2
SigningMethodNone == -1

DefaultSigningProgramGPG == <<"gpg">>
DefaultSigningProgramSSH == <<"ssh-keygen">>
DefaultSigningProgramX509 == <<"gpgsm">>

namespaceSSHSignature == "git"

----------------------------------------------------------------------------
(* strings package *)

SP == " "
NL == "\n"
CR == "\r"

IsSpace(c) == c \in {SP, NL, CR}

\* unicode.ToLower on the characters of an atom
LowerAtom(c) ==
    CASE c = "K" -> "k"
      [] c = "User.Name" -> "user.name"
      [] OTHER -> c

ToLower(s) == [i \in 1..Len(s) |-> LowerAtom(s[i])]

RECURSIVE TrimLeft(_)
TrimLeft(s) ==
    IF s # <<>> /\ IsSpace(Head(s)) THEN TrimLeft(Tail(s)) ELSE s

RECURSIVE TrimRight(_)
TrimRight(s) ==
    IF s # <<>> /\ IsSpace(s[Len(s)]) THEN TrimRight(SubSeq(s, 1, Len(s) - 1)) ELSE s

TrimSpace(s) == TrimRight(TrimLeft(s))

\* strings.Split(s, sep) for a one-character separator: Count(sep)+1 pieces,
\* empty pieces kept
RECURSIVE Split(_, _)
Split(s, sep) ==
    IF \A i \in 1..Len(s) : s[i] # sep
    THEN <<s>>
    ELSE LET i == CHOOSE i \in 1..Len(s) : s[i] = sep /\ \A j \in 1..(i - 1) : s[j] # sep
         IN  <<SubSeq(s, 1, i - 1)>> \o Split(SubSeq(s, i + 1, Len(s)), sep)

RECURSIVE Join(_, _)
Join(elems, sep) ==
    IF elems = <<>> THEN <<>>
    ELSE IF Len(elems) = 1 THEN elems[1]
    ELSE elems[1] \o <<sep>> \o Join(Tail(elems), sep)

\* a Go map[string]string and an assignment to one of its entries
EmptyMap == <<>>
MapSet(m, k, v) == [x \in (DOMAIN m) \cup {k} |-> IF x = k THEN v ELSE m[x]]
Has(m, k) == k \in DOMAIN m

----------------------------------------------------------------------------
(* Configuration readers *)

\* bufio.ScanLines: the text up to each newline without a trailing carriage
\* return; a last line without newline is a token unless it is empty
DropCR(l) == IF l # <<>> /\ l[Len(l)] = CR THEN SubSeq(l, 1, Len(l) - 1) ELSE l

ScanLines(data) ==
    LET parts == Split(data, NL)
        toks == IF parts[Len(parts)] = <<>> THEN SubSeq(parts, 1, Len(parts) - 1) ELSE parts
    IN  [i \in 1..Len(toks) |-> DropCR(toks[i])]

\* Scanner.Scan: the lines before the one that overflows the buffer; Scan
\* returns false there (bufio.ErrTooLong) and the loop ends
Scanned(data, long) ==
    LET toks == ScanLines(data)
    IN  IF long \in 1..Len(toks) THEN SubSeq(toks, 1, long - 1) ELSE toks

getConfigKey(k) == k

RECURSIVE getConfigLoop(_, _)
getConfigLoop(lines, config) ==
    IF lines = <<>> THEN config
    ELSE LET data == Split(Head(lines), SP)
         IN  IF Len(data) < 2
             THEN getConfigLoop(Tail(lines), config)
             ELSE getConfigLoop(Tail(lines),
                                MapSet(config, getConfigKey(data[1]), Join(Tail(data), SP)))

\* getConfig(): the reader's error is the only one returned; s.Err() is
\* never consulted
getConfig(out, fails, long) ==
    IF fails
    THEN [config |-> EmptyMap, err |-> Cause("exit status 1")]
    ELSE [config |-> getConfigLoop(Scanned(out, long), EmptyMap), err |-> NoError]

Mut_GitConfigKey(k) == k
GitConfigKey(k) == ToLower(k)

RECURSIVE GetGitConfigLoop(_, _)
GetGitConfigLoop(lines, config) ==
    IF lines = <<>> THEN config
    ELSE LET split == Split(Head(lines), SP)
         IN  IF Len(split) < 2
             THEN GetGitConfigLoop(Tail(lines), config)
             ELSE GetGitConfigLoop(Tail(lines),
                                   MapSet(config, GitConfigKey(split[1]), Join(Tail(split), SP)))

GetGitConfig(out, fails) ==
    IF fails
    THEN [config |-> EmptyMap, err |-> Cause("unable to read Git config: exit status 1")]
    ELSE [config |-> GetGitConfigLoop(Split(TrimSpace(out), NL), EmptyMap), err |-> NoError]

----------------------------------------------------------------------------
(* Signing Method Resolver *)

KeyFormat == <<"gpg.format">>
KeySigningKey == <<"user.signingkey">>
KeyProgramGPG == <<"gpg.program">>
KeyProgramSSH == <<"gpg.ssh.program">>
KeyProgramX509 == <<"gpg.x509.program">>

Mut_getSigningMethod(gitConfig) ==
    IF ~Has(gitConfig, KeyFormat)
    THEN [method |-> SigningMethodGPG, err |-> NoError]
    ELSE LET format == gitConfig[KeyFormat]
         IN  CASE format = <<"ssh">> -> [method |-> SigningMethodSSH, err |-> NoError]
               [] format = <<"x509">> -> [method |-> SigningMethodX509, err |-> NoError]
               [] OTHER -> [method |-> SigningMethodGPG, err |-> NoError]

getSigningMethod(gitConfig) ==
    IF ~Has(gitConfig, KeyFormat)
    THEN [method |-> SigningMethodGPG, err |-> NoError]
    ELSE LET format == gitConfig[KeyFormat]
         IN  CASE format = <<"gpg">> -> [method |-> SigningMethodGPG, err |-> NoError]
               [] format = <<"ssh">> -> [method |-> SigningMethodSSH, err |-> NoError]
               [] format = <<"x509">> -> [method |-> SigningMethodX509, err |-> NoError]
               [] OTHER -> [method |-> SigningMethodNone,
                            err |-> Sentinel(ErrUnknownSigningMethod)]

getSigningKeyInfo(gitConfig) ==
    IF ~Has(gitConfig, KeySigningKey) THEN <<>> ELSE gitConfig[KeySigningKey]

Mut_getSigningProgram(gitConfig, signingMethod) ==
    IF Has(gitConfig, KeyProgramGPG) THEN gitConfig[KeyProgramGPG]
    ELSE DefaultSigningProgramGPG

getSigningProgram(gitConfig, signingMethod) ==
    CASE signingMethod = SigningMethodSSH ->
            IF Has(gitConfig, KeyProgramSSH) THEN gitConfig[KeyProgramSSH]
            ELSE DefaultSigningProgramSSH
      [] signingMethod = SigningMethodX509 ->
            IF Has(gitConfig, KeyProgramX509) THEN gitConfig[KeyProgramX509]
            ELSE DefaultSigningProgramX509
      [] OTHER ->
            IF Has(gitConfig, KeyProgramGPG) THEN gitConfig[KeyProgramGPG]
            ELSE DefaultSigningProgramGPG

\* the rest of getSigningInfo once the configuration c and the method m of
\* its format entry are at hand
SigningInfoOf(c, m) ==
    IF c.err # NoError
    THEN [method |-> SigningMethodNone, keyInfo |-> <<>>, program |-> <<>>, err |-> c.err]
    ELSE IF m.err # NoError
    THEN [method |-> SigningMethodNone, keyInfo |-> <<>>, program |-> <<>>, err |-> m.err]
    ELSE [method |-> m.method,
          keyInfo |-> getSigningKeyInfo(c.config),
          program |-> getSigningProgram(c.config, m.method),
          err |-> NoError]

SigningInfoFrom(c) == SigningInfoOf(c, getSigningMethod(c.config))

getSigningInfo(out, fails, long) == SigningInfoFrom(getConfig(out, fails, long))

Failed(err) == [program |-> <<>>, args |-> <<>>, err |-> err]

\* the switch of GetSigningCommand on the method of info
SigningCommandOf(info) ==
    IF info.err # NoError THEN Failed(info.err)
    ELSE CASE info.method = SigningMethodGPG ->
                [program |-> info.program,
                 args |-> IF Len(info.keyInfo) = 0 THEN << <<"-bsa">> >>
                          ELSE << <<"-bsau">>, info.keyInfo >>,
                 err |-> NoError]
           [] info.method = SigningMethodSSH ->
                IF Len(info.keyInfo) = 0
                THEN Failed(Sentinel(ErrSigningKeyNotSpecified))
                ELSE [program |-> info.program,
                      args |-> << <<"-Y">>, <<"sign">>, <<"-n">>, <<"git">>,
                                  <<"-f">>, info.keyInfo >>,
                      err |-> NoError]
           [] info.method = SigningMethodX509 ->
                [program |-> info.program,
                 args |-> IF Len(info.keyInfo) = 0 THEN << <<"-bsa">> >>
                          ELSE << <<"-bsau">>, info.keyInfo >>,
                 err |-> NoError]
           [] OTHER -> Failed(Sentinel(ErrUnknownSigningMethod))

GetSigningCommand(out, fails, long) == SigningCommandOf(getSigningInfo(out, fails, long))

----------------------------------------------------------------------------
(* Inputs of the configuration specifications *)

RECURSIVE Concat(_)
Concat(ls) == IF ls = <<>> THEN <<>> ELSE Head(ls) \o <<NL>> \o Concat(Tail(ls))

SeqsUpTo(S, n) == UNION {[1..m -> S] : m \in 0..n}

ConfigAtoms == {"K", "k", SP, NL}

\* what `git config --get-regexp` prints: one line per entry, each ended by
\* a newline: the key, and for an entry that has a value, a space and the
\* value (which may be empty or hold spaces)
GitShaped(s) ==
    /\ s # <<>> => s[Len(s)] = NL
    /\ \A i \in 1..Len(s) :
          (i = 1 \/ s[i - 1] = NL) =>
              /\ s[i] \in {"K", "k"}
              /\ s[i + 1] \in {SP, NL}

ResolverLines ==
    { <<"gpg.format", SP, "gpg">>, <<"gpg.format", SP, "ssh">>,
      <<"gpg.format", SP, "x509">>, <<"gpg.format", SP, "bogus">>,
      <<"user.signingkey", SP, "ABCD">>, <<"user.signingkey", SP>>,
      <<"gpg.program", SP, "mygpg">>, <<"gpg.ssh.program", SP, "myssh">>,
      <<"gpg.x509.program", SP, "mysm">> }

Pending == [done |-> FALSE]
Done(r) == [done |-> TRUE, res |-> r]

InitResults ==
    /\ gitCfg = Pending
    /\ cfg = Pending
    /\ method = Pending
    /\ command = Pending

\* signGitObject has not been called
NoSigner ==
    /\ pc = "idle"
    /\ contents = 0
    /\ toWrite = 0
    /\ stdinOpen = FALSE
    /\ inPipe = 0 /\ outPipe = 0 /\ errPipe = 0
    /\ child = "none" /\ childOp = "idle"
    /\ outWritten = 0 /\ errWritten = 0 /\ exitCode = 0
    /\ sig = 0 /\ errOut = 0 /\ printed = 0
    /\ result = Pending

\* nothing is signed with key material and nothing is verified
NoVerifier ==
    /\ keyIn = Pending /\ keySig = Pending
    /\ sshIn = Pending /\ sshVerified = Pending
    /\ gsIn = Pending /\ gitsign = Pending

\* Repository.GetGitConfig
ReadGitConfig ==
    /\ ~gitCfg.done
    /\ gitCfg' = Done(GetGitConfig(stdOut, execFails))
    /\ UNCHANGED <<stdOut, execFails, tooLong, cfg, method, command, signVars, verVars>>

\* getConfig
ReadConfig ==
    /\ ~cfg.done
    /\ cfg' = Done(getConfig(stdOut, execFails, tooLong))
    /\ UNCHANGED <<stdOut, execFails, tooLong, gitCfg, method, command, signVars, verVars>>

\* getSigningMethod on the map getConfig returned
ResolveMethod ==
    /\ cfg.done /\ cfg.res.err = NoError
    /\ ~method.done
    /\ method' = Done(getSigningMethod(cfg.res.config))
    /\ UNCHANGED <<stdOut, execFails, tooLong, gitCfg, cfg, command, signVars, verVars>>

\* GetSigningCommand, which reads the configuration afresh
ResolveCommand ==
    /\ ~command.done
    /\ command' = Done(GetSigningCommand(stdOut, execFails, tooLong))
    /\ UNCHANGED <<stdOut, execFails, tooLong, gitCfg, cfg, method, signVars, verVars>>

InitConfig ==
    /\ stdOut \in {s \in SeqsUpTo(ConfigAtoms, MaxOutLen) : GitShaped(s)}
    /\ execFails = FALSE
    /\ tooLong = 0
    /\ InitResults
    /\ NoSigner
    /\ NoVerifier

NextConfig == ReadGitConfig \/ ReadConfig

SpecConfig == InitConfig /\ [][NextConfig]_vars

InitResolve ==
    /\ stdOut \in {Concat(ls) : ls \in SeqsUpTo(ResolverLines, MaxCfgLines)}
    /\ execFails \in BOOLEAN
    /\ tooLong \in 0..MaxCfgLines
    /\ InitResults
    /\ NoSigner
    /\ NoVerifier

NextResolve == ReadConfig \/ ResolveMethod \/ ResolveCommand

SpecResolve == InitResolve /\ [][NextResolve]_vars

----------------------------------------------------------------------------
(* Claims about the configuration readers and the resolver *)

FormatOf(c) == IF Has(c, KeyFormat) THEN c[KeyFormat] ELSE <<"absent">>

RefMethod(c) ==
    CASE ~Has(c, KeyFormat) -> SigningMethodGPG
      [] FormatOf(c) = <<"gpg">> -> SigningMethodGPG
      [] FormatOf(c) = <<"ssh">> -> SigningMethodSSH
      [] FormatOf(c) = <<"x509">> -> SigningMethodX509
      [] OTHER -> SigningMethodNone

\* C1: getSigningMethod decides from the gpg.format entry alone: absent or
\* "gpg" gives GPG, "ssh" gives SSH, "x509" gives X509, every other value
\* gives ErrUnknownSigningMethod and no method.
C1_MethodFromFormat ==
    method.done =>
        LET c == cfg.res.config
            r == method.res
        IN  IF RefMethod(c) = SigningMethodNone
            THEN r.err = Sentinel(ErrUnknownSigningMethod) /\ r.method = SigningMethodNone
            ELSE r.err = NoError /\ r.method = RefMethod(c)

C1_Witness ==
    /\ method.done
    /\ FormatOf(cfg.res.config) = <<"bogus">>
    /\ Has(cfg.res.config, KeyProgramGPG)
    /\ Has(cfg.res.config, KeySigningKey)
    /\ method.res.err = Sentinel(ErrUnknownSigningMethod)

RefKey(c) == IF Has(c, KeySigningKey) THEN c[KeySigningKey] ELSE <<>>

RefProgram(c) ==
    LET m == RefMethod(c)
        pick(k, d) == IF Has(c, k) THEN c[k] ELSE d
    IN  CASE m = SigningMethodGPG -> pick(KeyProgramGPG, <<"gpg">>)
          [] m = SigningMethodSSH -> pick(KeyProgramSSH, <<"ssh-keygen">>)
          [] m = SigningMethodX509 -> pick(KeyProgramX509, <<"gpgsm">>)

RefArgs(c) ==
    IF RefMethod(c) = SigningMethodSSH
    THEN << <<"-Y">>, <<"sign">>, <<"-n">>, <<"git">>, <<"-f">>, RefKey(c) >>
    ELSE IF RefKey(c) = <<>> THEN << <<"-bsa">> >> ELSE << <<"-bsau">>, RefKey(c) >>

\* C2: for a configuration whose method resolves, GetSigningCommand returns
\* the plan of the reference mapping: the method's own program override or
\* default, ["-bsa"] or ["-bsau", k] for GPG and X509, the ssh-keygen sign
\* arguments for SSH with a key, and for SSH without a key the error
\* ErrSigningKeyNotSpecified with an empty program and no arguments.
C2_CommandIsReferencePlan ==
    LET c == getConfig(stdOut, execFails, tooLong)
    IN  (command.done /\ c.err = NoError /\ RefMethod(c.config) # SigningMethodNone) =>
            IF RefMethod(c.config) = SigningMethodSSH /\ RefKey(c.config) = <<>>
            THEN command.res = [program |-> <<>>, args |-> <<>>,
                                err |-> Sentinel(ErrSigningKeyNotSpecified)]
            ELSE command.res = [program |-> RefProgram(c.config),
                                args |-> RefArgs(c.config), err |-> NoError]

C2_Witness ==
    /\ command.done
    /\ ~execFails
    /\ stdOut = Concat(<< <<"gpg.ssh.program", SP, "myssh">>,
                          <<"user.signingkey", SP, "ABCD">> >>)
    /\ tooLong = 0
    /\ command.res = [program |-> <<"gpg">>, args |-> << <<"-bsau">>, <<"ABCD">> >>,
                      err |-> NoError]

\* the text of s without its leading and trailing white space
Trimmed(s) ==
    LET ink == {i \in 1..Len(s) : ~IsSpace(s[i])}
    IN  IF ink = {} THEN <<>>
        ELSE SubSeq(s, CHOOSE i \in ink : \A j \in ink : i <= j,
                       CHOOSE i \in ink : \A j \in ink : i >= j)

\* the lines of t, each as the pair of its first and last position
LineSegs(t) ==
    {sg \in (1..(Len(t) + 1)) \X (0..Len(t)) :
        /\ sg[1] <= sg[2] + 1
        /\ sg[1] = 1 \/ t[sg[1] - 1] = NL
        /\ sg[2] = Len(t) \/ t[sg[2] + 1] = NL
        /\ \A x \in sg[1]..sg[2] : t[x] # NL}

SegHasSpace(t, sg) == \E x \in sg[1]..sg[2] : t[x] = SP
SegSpace(t, sg) ==
    CHOOSE x \in sg[1]..sg[2] : t[x] = SP /\ \A y \in sg[1]..(x - 1) : t[y] # SP
SegKey(t, sg) == SubSeq(t, sg[1], SegSpace(t, sg) - 1)
SegValue(t, sg) == SubSeq(t, SegSpace(t, sg) + 1, sg[2])

\* the map in which each key holds the text after the first space of the
\* last line that starts with the key
RefConfig(t, K(_)) ==
    LET segs == {sg \in LineSegs(t) : SegHasSpace(t, sg)}
        last(k) == CHOOSE sg \in segs :
                      /\ K(SegKey(t, sg)) = k
                      /\ \A o \in segs : K(SegKey(t, o)) = k => o[1] <= sg[1]
    IN  [k \in {K(SegKey(t, sg)) : sg \in segs} |-> SegValue(t, last(k))]

Verbatim(k) == k

\* C7 (amended): GetGitConfig trims the whole output and, line by line, sets
\* the entry keyed by the lowercased text before the line's first space to
\* the text after it, a later line replacing an earlier entry of the same
\* key; a line without a space gives no entry; getConfig does the same on
\* the untrimmed output with the key verbatim.
C7_ConfigIsLastLinePerKey ==
    /\ gitCfg.done => gitCfg.res.config = RefConfig(Trimmed(stdOut), ToLower)
    /\ cfg.done => cfg.res.config = RefConfig(stdOut, Verbatim)

C7_Witness ==
    /\ gitCfg.done /\ cfg.done
    /\ stdOut = <<"K", SP, "K", NL, "k", SP, "k", NL>>
    /\ gitCfg.res.config = [x \in {<<"k">>} |-> <<"k">>]
    /\ cfg.res.config = [x \in {<<"K">>, <<"k">>} |-> x]

\* white-space delimited tokens of a line
Fields(l) == SelectSeq(Split(l, SP), LAMBDA tok : tok # <<>>)

RawLines(t) == {SubSeq(t, sg[1], sg[2]) : sg \in LineSegs(t)}

TokenEntries(t, m, K(_)) ==
    /\ \A l \in RawLines(t) :
          Len(Fields(l)) >= 2 =>
              /\ Has(m, K(Fields(l)[1]))
              /\ m[K(Fields(l)[1])] = Join(Tail(Fields(l)), SP)
    /\ \A k \in DOMAIN m :
          \E l \in RawLines(t) : Len(Fields(l)) >= 2 /\ K(Fields(l)[1]) = k

\* C7 as stated: every line with a value token gives the entry (lowercased
\* first token -> remaining tokens joined with single spaces), a line with
\* no value token gives none, and getConfig does the same with the key
\* verbatim.
C7_Original ==
    /\ gitCfg.done => TokenEntries(stdOut, gitCfg.res.config, ToLower)
    /\ cfg.done => TokenEntries(stdOut, cfg.res.config, Verbatim)

----------------------------------------------------------------------------
(* Subprocess signer: signGitObject and the external signing program.      *)
(* Pipes are bounded OS buffers: a write blocks while the pipe is full, a  *)
(* read blocks while it is empty and the other end is open.                *)

\* return s, err (with the statement that returned)
Return(s, err) ==
    /\ pc' = "done"
    /\ result' = Done([sig |-> s, err |-> err, at |-> pc])

inputs == <<stdOut, execFails, tooLong>>
readers == <<gitCfg, cfg, method>>
pipes == <<inPipe, outPipe, errPipe>>
childVars == <<child, childOp, outWritten, errWritten, exitCode>>
parentVars == <<contents, toWrite, stdinOpen, sig, errOut, printed>>

\* command, args, err := GetSigningCommand()
SignGetCommand ==
    /\ pc = "command"
    /\ command' = Done(GetSigningCommand(stdOut, execFails, tooLong))
    /\ IF command'.res.err # NoError
       THEN Return(0, command'.res.err)
       ELSE pc' = "stdinPipe" /\ UNCHANGED result
    /\ UNCHANGED <<inputs, readers, pipes, childVars, parentVars, verVars>>

\* cmd.StdinPipe(), cmd.StdoutPipe(), cmd.StderrPipe(): each may fail for
\* want of file descriptors
PipeStep(at, next) ==
    /\ pc = at
    /\ \/ pc' = next /\ UNCHANGED result
       \/ Return(0, Cause("pipe: too many open files"))
    /\ UNCHANGED <<cfgVars, pipes, childVars, parentVars, verVars>>

StdinPipe == PipeStep("stdinPipe", "stdoutPipe")
StdoutPipe == PipeStep("stdoutPipe", "stderrPipe")
StderrPipe == PipeStep("stderrPipe", "cmdStart")

\* cmd.Start()
CmdStart ==
    /\ pc = "cmdStart"
    /\ \/ /\ pc' = "write"
          /\ child' = "running"
          /\ stdinOpen' = TRUE
          /\ UNCHANGED result
       \/ /\ Return(0, Cause("exec: executable file not found"))
          /\ UNCHANGED <<child, stdinOpen>>
    /\ UNCHANGED <<cfgVars, pipes, childOp, outWritten, errWritten, exitCode,
                   contents, toWrite, sig, errOut, printed, verVars>>

Mut_DrainsOutput == pc \in {"write", "readOut"}
\* the statements at which signGitObject reads the stdout pipe
DrainsOutput == pc = "readOut"

\* stdInWriter.Write(contents): returns once every byte is in the pipe, or
\* with EPIPE once the child has closed the other end
WriteByte ==
    /\ pc = "write" /\ toWrite > 0
    /\ child = "running" /\ inPipe < PipeCap
    /\ inPipe' = inPipe + 1
    /\ toWrite' = toWrite - 1
    /\ UNCHANGED <<cfgVars, pc, result, outPipe, errPipe, childVars, stdinOpen,
                   contents, sig, errOut, printed, verVars>>

WriteDone ==
    /\ pc = "write" /\ toWrite = 0
    /\ pc' = "closeIn"
    /\ UNCHANGED <<cfgVars, result, pipes, childVars, parentVars, verVars>>

WriteFail ==
    /\ pc = "write" /\ toWrite > 0
    /\ child = "exited"
    /\ Return(0, Cause("write: broken pipe"))
    /\ UNCHANGED <<cfgVars, pipes, childVars, parentVars, verVars>>

\* stdInWriter.Close()
CloseIn ==
    /\ pc = "closeIn"
    /\ \/ /\ pc' = "readOut"
          /\ stdinOpen' = FALSE
          /\ UNCHANGED result
       \/ /\ Return(0, Cause("close: file already closed"))
          /\ UNCHANGED stdinOpen
    /\ UNCHANGED <<cfgVars, pipes, childVars, contents, toWrite, sig, errOut, printed, verVars>>

\* io.ReadAll(stdOutReader): reads until end of file, which comes once the
\* child has exited and the pipe is empty
ReadOutByte ==
    /\ DrainsOutput
    /\ outPipe > 0
    /\ outPipe' = outPipe - 1
    /\ sig' = sig + 1
    /\ UNCHANGED <<cfgVars, pc, result, inPipe, errPipe, childVars, contents, toWrite,
                   stdinOpen, errOut, printed, verVars>>

ReadOutEOF ==
    /\ pc = "readOut"
    /\ outPipe = 0 /\ child = "exited"
    /\ pc' = "readErr"
    /\ UNCHANGED <<cfgVars, result, pipes, childVars, parentVars, verVars>>

ReadOutFail ==
    /\ pc = "readOut"
    /\ Return(0, Cause("read: input/output error"))
    /\ UNCHANGED <<cfgVars, pipes, childVars, parentVars, verVars>>

\* io.ReadAll(stdErrReader)
ReadErrByte ==
    /\ pc = "readErr"
    /\ errPipe > 0
    /\ errPipe' = errPipe - 1
    /\ errOut' = errOut + 1
    /\ UNCHANGED <<cfgVars, pc, result, inPipe, outPipe, childVars, contents, toWrite,
                   stdinOpen, sig, printed, verVars>>

\* ... and: if len(e) > 0 { fmt.Fprint(os.Stderr, string(e)) }
ReadErrEOF ==
    /\ pc = "readErr"
    /\ errPipe = 0 /\ child = "exited"
    /\ pc' = "wait"
    /\ printed' = errOut
    /\ UNCHANGED <<cfgVars, result, pipes, childVars, contents, toWrite, stdinOpen, sig, errOut, verVars>>

ReadErrFail ==
    /\ pc = "readErr"
    /\ Return(0, Cause("read: input/output error"))
    /\ UNCHANGED <<cfgVars, pipes, childVars, parentVars, verVars>>

Mut_AfterWait(n) == [sig |-> n, err |-> NoError]
\* if len(sig) == 0 { return "", ErrUnableToSign }; return string(sig), nil
AfterWait(n) ==
    IF n = 0 THEN [sig |-> 0, err |-> Sentinel(ErrUnableToSign)]
    ELSE [sig |-> n, err |-> NoError]

\* cmd.Wait() and the rest of signGitObject
Wait ==
    /\ pc = "wait"
    /\ child = "exited"
    /\ IF exitCode # 0
       THEN Return(0, Cause("exit status 1"))
       ELSE Return(AfterWait(sig).sig, AfterWait(sig).err)
    /\ UNCHANGED <<cfgVars, pipes, childVars, parentVars, verVars>>

\* The signing program: any sequence of blocking reads of its stdin and
\* blocking writes to its stdout and stderr, then exit.
ChildBegin ==
    /\ child = "running" /\ childOp = "idle"
    /\ \/ childOp' = "read"
       \/ outWritten < MaxOut /\ childOp' = "writeOut"
       \/ errWritten < MaxErr /\ childOp' = "writeErr"
    /\ UNCHANGED <<cfgVars, pc, result, pipes, child, outWritten, errWritten,
                   exitCode, parentVars, verVars>>

\* read(0): a byte, or end of file once the parent has closed its end
ChildRead ==
    /\ child = "running" /\ childOp = "read"
    /\ \/ inPipe > 0 /\ inPipe' = inPipe - 1
       \/ inPipe = 0 /\ ~stdinOpen /\ UNCHANGED inPipe
    /\ childOp' = "idle"
    /\ UNCHANGED <<cfgVars, pc, result, outPipe, errPipe, child, outWritten,
                   errWritten, exitCode, parentVars, verVars>>

\* defer stdOutReader.Close(), defer stdErrReader.Close(): once
\* signGitObject has returned, nobody reads the child's output pipes
ReadersClosed == pc = "done"

ChildWriteOut ==
    /\ child = "running" /\ childOp = "writeOut"
    /\ ~ReadersClosed
    /\ outPipe < PipeCap
    /\ outPipe' = outPipe + 1
    /\ outWritten' = outWritten + 1
    /\ childOp' = "idle"
    /\ UNCHANGED <<cfgVars, pc, result, inPipe, errPipe, child, errWritten,
                   exitCode, parentVars, verVars>>

ChildWriteErr ==
    /\ child = "running" /\ childOp = "writeErr"
    /\ ~ReadersClosed
    /\ errPipe < PipeCap
    /\ errPipe' = errPipe + 1
    /\ errWritten' = errWritten + 1
    /\ childOp' = "idle"
    /\ UNCHANGED <<cfgVars, pc, result, inPipe, outPipe, child, outWritten,
                   exitCode, parentVars, verVars>>

\* a write to a pipe that has no reader left kills the child (SIGPIPE);
\* the exit code of a process ended by a signal is -1
ChildSigpipe ==
    /\ child = "running" /\ childOp \in {"writeOut", "writeErr"}
    /\ ReadersClosed
    /\ child' = "exited"
    /\ childOp' = "idle"
    /\ exitCode' = -1
    /\ UNCHANGED <<cfgVars, pc, result, pipes, outWritten, errWritten,
                   parentVars, verVars>>

ChildExit ==
    /\ child = "running" /\ childOp = "idle"
    /\ child' = "exited"
    /\ exitCode' \in {0, 1}
    /\ UNCHANGED <<cfgVars, pc, result, pipes, childOp, outWritten, errWritten,
                   parentVars, verVars>>

SignLines == { <<"gpg.format", SP, "ssh">>, <<"user.signingkey", SP, "ABCD">> }

Init ==
    /\ stdOut \in {Concat(ls) : ls \in SeqsUpTo(SignLines, 1)}
    /\ execFails \in BOOLEAN
    /\ tooLong \in 0..1
    /\ InitResults
    /\ pc = "command"
    /\ contents \in 0..MaxPayload
    /\ toWrite = contents
    /\ stdinOpen = FALSE
    /\ inPipe = 0 /\ outPipe = 0 /\ errPipe = 0
    /\ child = "none" /\ childOp = "idle"
    /\ outWritten = 0 /\ errWritten = 0 /\ exitCode = 0
    /\ sig = 0 /\ errOut = 0 /\ printed = 0
    /\ result = Pending
    /\ NoVerifier

Next ==
    \/ SignGetCommand
    \/ StdinPipe \/ StdoutPipe \/ StderrPipe
    \/ CmdStart
    \/ WriteByte \/ WriteDone \/ WriteFail
    \/ CloseIn
    \/ ReadOutByte \/ ReadOutEOF \/ ReadOutFail
    \/ ReadErrByte \/ ReadErrEOF \/ ReadErrFail
    \/ Wait
    \/ ChildBegin \/ ChildRead \/ ChildWriteOut \/ ChildWriteErr
    \/ ChildSigpipe \/ ChildExit

Spec == Init /\ [][Next]_vars

----------------------------------------------------------------------------
(* Claims about the subprocess signer *)

\* C4 as stated: whenever the program exits with status zero having written
\* nothing to its stdout, signGitObject returns ErrUnableToSign and an empty
\* signature.
C4_Original ==
    (result.done /\ child = "exited" /\ exitCode = 0 /\ outWritten = 0) =>
        (result.res.err = Sentinel(ErrUnableToSign) /\ result.res.sig = 0)

\* C4 (amended): when every pipe, start, write, close and read step has
\* succeeded and the program has exited with status zero having written
\* nothing to its stdout, signGitObject returns ErrUnableToSign and an empty
\* signature, whatever the program wrote to its stderr; and a zero exit with
\* empty output is never reported as success.
C4_EmptyOutputIsUnableToSign ==
    (result.done /\ child = "exited" /\ exitCode = 0 /\ outWritten = 0) =>
        /\ result.res.err # NoError
        /\ result.res.sig = 0
        /\ result.res.at = "wait" => result.res.err = Sentinel(ErrUnableToSign)

C4_Witness ==
    /\ result.done /\ result.res.at = "wait"
    /\ exitCode = 0 /\ outWritten = 0
    /\ errWritten > 0 /\ printed = errWritten
    /\ result.res = [sig |-> 0, err |-> Sentinel(ErrUnableToSign), at |-> "wait"]

\* parent blocked writing its input, child blocked writing its output
Deadlocked ==
    /\ pc = "write" /\ toWrite > 0 /\ inPipe = PipeCap
    /\ child = "running" /\ childOp = "writeOut" /\ outPipe = PipeCap

WriteBeforeRead ==
    (sig > 0 \/ errOut > 0 \/ pc \in {"readOut", "readErr", "wait"}) =>
        (toWrite = 0 /\ ~stdinOpen)

\* C8: signGitObject has written the whole payload and closed the child's
\* stdin before it reads any byte of the child's stdout or stderr; and once
\* the parent is blocked writing input while the child is blocked writing
\* output, no step of either changes anything, so signGitObject never returns.
C8_WriteThenReadDeadlock ==
    /\ [](WriteBeforeRead /\ (Deadlocked => ~result.done))
    /\ [][Deadlocked => (Deadlocked' /\ UNCHANGED vars)]_vars

C8_Witness ==
    /\ Deadlocked
    /\ contents > PipeCap
    /\ contents - toWrite - inPipe = 0
    /\ outWritten = PipeCap

NumLines(out) == Cardinality({i \in 1..Len(out) : out[i] = NL})

ConfigReadFailed == execFails \/ tooLong \in 1..NumLines(stdOut)

\* C9: no configuration-read or subprocess I/O error is swallowed: when the
\* configuration query fails or reading its output stops with an error,
\* getConfig, GetSigningCommand and signGitObject return an error; and when a
\* pipe, start, write, close, read or wait step of signGitObject fails,
\* signGitObject returns an error and no signature.
C9_NoErrorSwallowed ==
    /\ (ConfigReadFailed /\ cfg.done) => cfg.res.err # NoError
    /\ (ConfigReadFailed /\ command.done) => command.res.err # NoError
    /\ (ConfigReadFailed /\ result.done) => result.res.err # NoError
    /\ (result.done /\ (result.res.at # "wait" \/ exitCode # 0)) =>
            (result.res.err # NoError /\ result.res.sig = 0)

----------------------------------------------------------------------------
(* Key-material signer and SSH verifier.                                   *)
(* Key bytes are described by what the parsers see in them: the label of   *)
(* their BEGIN line ("" when there is none), whether the body between the  *)
(* BEGIN and END lines is plain base64 (OpenPGP armor carries a checksum   *)
(* line that is not), and the key they encode.  Signing is ideal: a        *)
(* signature verifies under a public key exactly when the matching private *)
(* key made it over the same bytes, and distinct payloads have distinct    *)
(* digests.                                                                *)

gpgPrivateKeyPEMHeader == "PGP PRIVATE KEY"
opensshPrivateKeyPEMHeader == "OPENSSH PRIVATE KEY"
rsaPrivateKeyPEMHeader == "RSA PRIVATE KEY"
genericPrivateKeyPEMHeader == "PRIVATE KEY"

HashSHA512 == "sha512"
HashSHA256 == "sha256"

Labels == {"", "PGP PRIVATE KEY", "PGP PRIVATE KEY BLOCK", "OPENSSH PRIVATE KEY",
           "RSA PRIVATE KEY", "PRIVATE KEY", "EC PRIVATE KEY"}
SSHKeys == {"ssh1", "ssh2"}
PGPKeys == {"pgp1"}
Materials == SSHKeys \cup PGPKeys \cup {"junk"}
Payloads == {"commit-a", "commit-b"}

Pub(k) == <<k, "pub">>

NoSig == [armor |-> "", pk |-> <<"", "">>, ns |-> "", hash |-> "", by |-> "",
          msg |-> <<"", "", "">>]

\* pem.Decode: the block, when the bytes hold a BEGIN line, a base64 body
\* and the matching END line
NoBlock == [found |-> FALSE, Type |-> ""]
pemDecode(bytes) ==
    IF bytes.label # "" /\ bytes.base64 THEN [found |-> TRUE, Type |-> bytes.label]
    ELSE NoBlock

\* signGitObjectUsingGPGKey: openpgp.ReadArmoredKeyRing, then
\* openpgp.ArmoredDetachSign with the first key of the ring
signGitObjectUsingGPGKey(data, bytes) ==
    IF bytes.label = "PGP PRIVATE KEY BLOCK" /\ bytes.key \in PGPKeys
    THEN [sig |-> [armor |-> "PGP SIGNATURE", pk |-> Pub(bytes.key), ns |-> "",
                   hash |-> HashSHA512, by |-> bytes.key, msg |-> <<"", HashSHA512, data>>],
          err |-> NoError, path |-> "gpg"]
    ELSE [sig |-> NoSig, err |-> Cause("openpgp: invalid data"), path |-> "gpg"]

Mut_SignNamespace == "file"
SignNamespace == namespaceSSHSignature

\* signGitObjectUsingSSHKey: ssh.ParsePrivateKey, sshsig.Sign with SHA-512
\* under the namespace, sshsig.Armor
signGitObjectUsingSSHKey(data, bytes) ==
    IF bytes.key \in SSHKeys
    THEN [sig |-> [armor |-> "SSH SIGNATURE", pk |-> Pub(bytes.key), ns |-> SignNamespace,
                   hash |-> HashSHA512, by |-> bytes.key,
                   msg |-> <<SignNamespace, HashSHA512, data>>],
          err |-> NoError, path |-> "ssh"]
    ELSE [sig |-> NoSig, err |-> Cause("ssh: no key found"), path |-> "ssh"]

Mut_IsSSHHeader(type) == type # gpgPrivateKeyPEMHeader
\* case opensshPrivateKeyPEMHeader, rsaPrivateKeyPEMHeader, genericPrivateKeyPEMHeader
IsSSHHeader(type) ==
    type \in {opensshPrivateKeyPEMHeader, rsaPrivateKeyPEMHeader, genericPrivateKeyPEMHeader}

KeyPathOf(block, data, bytes) ==
    IF ~block.found THEN signGitObjectUsingGPGKey(data, bytes)
    ELSE IF block.Type = gpgPrivateKeyPEMHeader THEN signGitObjectUsingGPGKey(data, bytes)
    ELSE IF IsSSHHeader(block.Type) THEN signGitObjectUsingSSHKey(data, bytes)
    ELSE [sig |-> NoSig, err |-> Sentinel(ErrUnknownSigningMethod), path |-> "none"]

signGitObjectUsingKey(data, bytes) == KeyPathOf(pemDecode(bytes), data, bytes)

\* sshsig.Verify(data, sig, pub, h, namespace)
sshsigVerify(data, s, pub, h, namespace) ==
    /\ s.ns = namespace
    /\ s.hash = h
    /\ s.pk = pub
    /\ Pub(s.by) = pub
    /\ s.msg = <<namespace, h, data>>

JunkKey == <<"junk", "">>
UnsupportedKey == <<"unsupported", "">>

\* the sentinel joined to a failure of sshsig.Verify
VerifyFailure == ErrIncorrectVerificationKey

\* verifySSHKeySignature(key, data, signature); key.material is JunkKey when
\* the TUF key does not parse, UnsupportedKey when it is no SSH key type
verifySSHKeySignature(key, data, signature) ==
    IF key.material = JunkKey
    THEN ErrorsJoin(ErrVerifyingSSHSignature, "signerverifier: unknown key type")
    ELSE IF key.material = UnsupportedKey
    THEN ErrorsJoin(ErrVerifyingSSHSignature, "ssh: unsupported key type")
    ELSE IF signature.armor # "SSH SIGNATURE"
    THEN ErrorsJoin(ErrVerifyingSSHSignature, "sshsig: invalid armor")
    ELSE IF ~sshsigVerify(data, signature, key.material, signature.hash, namespaceSSHSignature)
    THEN ErrorsJoin(VerifyFailure, "sshsig: verification failed")
    ELSE NoError

KeyBytes == [label : Labels, base64 : BOOLEAN, key : Materials]

TrustKeys == [material : {Pub(k) : k \in SSHKeys} \cup {JunkKey, UnsupportedKey}]

\* the signature handed to the verifier: the one signGitObjectUsingKey
\* returned, that one with the hash algorithm of its envelope rewritten, or
\* text that is no signature
SignatureOf(choice) ==
    CASE choice = "signed" -> keySig.res.sig
      [] choice = "rehashed" -> [keySig.res.sig EXCEPT !.hash = HashSHA256]
      [] OTHER -> NoSig

SignUsingKey ==
    /\ ~keySig.done
    /\ keySig' = Done(signGitObjectUsingKey(keyIn.contents, keyIn.bytes))
    /\ UNCHANGED <<cfgVars, signVars, keyIn, sshIn, sshVerified, gsIn, gitsign>>

VerifySSH ==
    /\ keySig.done /\ ~sshVerified.done
    /\ sshVerified' = Done(verifySSHKeySignature(sshIn.key, sshIn.data,
                                                   SignatureOf(sshIn.signature)))
    /\ UNCHANGED <<cfgVars, signVars, keyIn, keySig, sshIn, gsIn, gitsign>>

NoConfig ==
    /\ stdOut = <<>> /\ execFails = FALSE /\ tooLong = 0
    /\ InitResults

InitKey ==
    /\ NoConfig
    /\ NoSigner
    /\ keyIn \in [contents : Payloads, bytes : KeyBytes]
    /\ keySig = Pending
    /\ sshIn \in [key : TrustKeys, data : Payloads, signature : {"signed", "rehashed", "junk"}]
    /\ sshVerified = Pending
    /\ gsIn = Pending /\ gitsign = Pending

NextKey == SignUsingKey \/ VerifySSH

SpecKey == InitKey /\ [][NextKey]_vars

----------------------------------------------------------------------------
(* Claims about the key-material signer and the SSH verifier *)

Decodes(bytes) == bytes.label # "" /\ bytes.base64

RefPath(bytes) ==
    CASE ~Decodes(bytes) -> "gpg"
      [] bytes.label = "PGP PRIVATE KEY" -> "gpg"
      [] bytes.label \in {"OPENSSH PRIVATE KEY", "RSA PRIVATE KEY", "PRIVATE KEY"} -> "ssh"
      [] OTHER -> "none"

RoundTrip ==
    /\ keySig.done /\ sshVerified.done
    /\ RefPath(keyIn.bytes) = "ssh" /\ keyIn.bytes.key \in SSHKeys
    /\ sshIn.signature = "signed"
    /\ sshIn.key.material = Pub(keyIn.bytes.key)

\* C5: the signature signGitObjectUsingSSHKey returns for payload p and key k
\* verifies under the public key of k and payload p; under the same key and
\* signature and any other payload, verifySSHKeySignature fails with an
\* error of category ErrIncorrectVerificationKey, not ErrVerifyingSSHSignature.
C5_SSHRoundTrip ==
    RoundTrip =>
        IF sshIn.data = keyIn.contents
        THEN sshVerified.res = NoError
        ELSE sshVerified.res.sentinel = ErrIncorrectVerificationKey

C5_Witness ==
    /\ RoundTrip
    /\ keyIn.contents = "commit-a" /\ sshIn.data = "commit-a"
    /\ keySig.res.sig.ns = "git" /\ keySig.res.sig.hash = "sha512"
    /\ sshVerified.res = NoError

----------------------------------------------------------------------------
(* Keyless verifier: verifyGitsignSignature.                               *)
(* The environment says which of the outside services answer; the          *)
(* signature carries a certificate with the identity it was issued to.     *)

Issuers == {"https://accounts.example", "https://github.example"}
Subjects == {"jane@example.com", "eve@example.com"}

GitsignEnv == [roots : BOOLEAN, intermediates : BOOLEAN, newVerifier : BOOLEAN,
               rekor : BOOLEAN, ctPubs : BOOLEAN]

\* chain: the certificate chains to the roots and the signature is one over
\* the data; logged: its transparency-log entry and SCT check out
GitsignSignatures == [chain : BOOLEAN, issuer : Issuers, subject : Subjects,
                      logged : BOOLEAN]

GitsignKeys == [issuer : Issuers, identity : Subjects]

Mut_IdentityMatches(key, cert) == cert.issuer = key.issuer
\* Identities: []cosign.Identity{{Issuer: key.KeyVal.Issuer, Subject: key.KeyVal.Identity}}
IdentityMatches(key, cert) ==
    cert.issuer = key.issuer /\ cert.subject = key.identity

\* cosign.ValidateAndUnpackCert(verifiedCert, checkOpts)
ValidateAndUnpackCert(key, cert) == IdentityMatches(key, cert) /\ cert.logged

verifyGitsignSignature(env, key, signature) ==
    IF ~env.roots
    THEN ErrorsJoin(ErrVerifyingSigstoreSignature, "fulcioroots: no roots")
    ELSE IF ~env.intermediates
    THEN ErrorsJoin(ErrVerifyingSigstoreSignature, "fulcioroots: no intermediates")
    ELSE IF ~env.newVerifier
    THEN ErrorsJoin(ErrVerifyingSigstoreSignature, "gitsign: no verifier")
    ELSE IF ~signature.chain
    THEN Sentinel(ErrIncorrectVerificationKey)
    ELSE IF ~env.rekor
    THEN ErrorsJoin(ErrVerifyingSigstoreSignature, "rekor: no client")
    ELSE IF ~env.ctPubs
    THEN ErrorsJoin(ErrVerifyingSigstoreSignature, "cosign: no CT log keys")
    ELSE IF ~ValidateAndUnpackCert(key, signature)
    THEN ErrorsJoin(ErrIncorrectVerificationKey, "cosign: certificate not valid")
    ELSE NoError

VerifyGitsign ==
    /\ ~gitsign.done
    /\ gitsign' = Done(verifyGitsignSignature(gsIn.env, gsIn.key, gsIn.signature))
    /\ UNCHANGED <<cfgVars, signVars, keyIn, keySig, sshIn, sshVerified, gsIn>>

\* verifySSHKeySignature on a signature made elsewhere
VerifyForeignSSH ==
    /\ ~sshVerified.done
    /\ sshVerified' = Done(verifySSHKeySignature(sshIn.key, sshIn.data, sshIn.signature))
    /\ UNCHANGED <<cfgVars, signVars, keyIn, keySig, sshIn, gsIn, gitsign>>

ForeignSignatures ==
    { NoSig,
      [armor |-> "SSH SIGNATURE", pk |-> Pub("ssh1"), ns |-> "git", hash |-> HashSHA512,
       by |-> "ssh1", msg |-> <<"git", HashSHA512, "commit-a">>] }

InitVerify ==
    /\ NoConfig
    /\ NoSigner
    /\ keyIn = Pending /\ keySig = Pending
    /\ sshIn \in [key : [material : {Pub("ssh1"), JunkKey}], data : {"commit-a"},
                  signature : ForeignSignatures]
    /\ sshVerified = Pending
    /\ gsIn \in [env : GitsignEnv, key : GitsignKeys, signature : GitsignSignatures]
    /\ gitsign = Pending

NextVerify == VerifyGitsign \/ VerifyForeignSSH

SpecVerify == InitVerify /\ [][NextVerify]_vars

----------------------------------------------------------------------------
(* Claims about the verifiers *)

Category(err) == err.sentinel

\* the first stage of the pipeline that fails, 0 if none does
FirstFailing(in) ==
    CASE ~(in.env.roots /\ in.env.intermediates) -> 1
      [] ~(in.env.newVerifier /\ in.signature.chain) -> 2
      [] ~in.env.rekor -> 3
      [] ~in.env.ctPubs -> 4
      [] ~(/\ in.signature.issuer = in.key.issuer
           /\ in.signature.subject = in.key.identity
           /\ in.signature.logged) -> 5
      [] OTHER -> 0

\* C3 as stated: the first failing stage decides the result; stages 1, 3 and
\* 4 give ErrVerifyingSigstoreSignature, stage 2 (building the certificate
\* verifier or running chain verification) and stage 5 give
\* ErrIncorrectVerificationKey, and success needs all five stages.
C3_Original ==
    gitsign.done =>
        CASE FirstFailing(gsIn) \in {1, 3, 4} ->
                Category(gitsign.res) = ErrVerifyingSigstoreSignature
          [] FirstFailing(gsIn) \in {2, 5} ->
                Category(gitsign.res) = ErrIncorrectVerificationKey
          [] OTHER -> gitsign.res = NoError

\* C3 (amended): the first failing stage decides the result; stages 1, 3 and
\* 4 and, in stage 2, building the certificate verifier give
\* ErrVerifyingSigstoreSignature; in stage 2 running chain verification, and
\* stage 5, give ErrIncorrectVerificationKey (so a certificate whose chain
\* validates but whose issuer or subject is not the trust key's is rejected
\* with ErrIncorrectVerificationKey); success needs all five stages.
C3_FirstFailingStageDecides ==
    gitsign.done =>
        CASE FirstFailing(gsIn) \in {1, 3, 4} ->
                Category(gitsign.res) = ErrVerifyingSigstoreSignature
          [] FirstFailing(gsIn) = 2 /\ ~gsIn.env.newVerifier ->
                Category(gitsign.res) = ErrVerifyingSigstoreSignature
          [] FirstFailing(gsIn) \in {2, 5} ->
                Category(gitsign.res) = ErrIncorrectVerificationKey
          [] OTHER -> gitsign.res = NoError

C3_Witness ==
    /\ gitsign.done
    /\ gsIn.env = [roots |-> TRUE, intermediates |-> TRUE, newVerifier |-> TRUE,
                   rekor |-> TRUE, ctPubs |-> TRUE]
    /\ gsIn.signature.chain /\ gsIn.signature.logged
    /\ gsIn.signature.issuer = gsIn.key.issuer
    /\ gsIn.signature.subject # gsIn.key.identity
    /\ Category(gitsign.res) = ErrIncorrectVerificationKey

\* C10: every error of verifyGitsignSignature and verifySSHKeySignature that
\* stems from a failing library call carries one category sentinel together
\* with the underlying error of that call.
C10_SentinelWithCause ==
    /\ (gitsign.done /\ gitsign.res # NoError) =>
            (gitsign.res.sentinel # Nil /\ gitsign.res.cause # Nil)
    /\ (sshVerified.done /\ sshVerified.res # NoError) =>
            (sshVerified.res.sentinel # Nil /\ sshVerified.res.cause # Nil)

====
